---------------------------- MODULE Spec2Model ----------------------------
(***************************************************************************)
(* libprotoserial: sp::fragmentation_handler                               *)
(* (src/libprotoserial/fragmentation/fragmentation.hpp).                   *)
(*                                                                         *)
(* The handler splits transfers into fragments, reassembles received       *)
(* fragments into transfers, answers retransmit requests and acknowledges  *)
(* completed transfers.  Its three entry points are receive_callback,      *)
(* main_task and transmit; interface_status_callback stores the link       *)
(* status.  Every entry point is one action of this module.                *)
(*                                                                         *)
(* transfer.hpp, headers.hpp, clock.hpp and interface.hpp are not part of  *)
(* the sources at hand; the few operations of theirs the handler calls are *)
(* modelled from the specification and are marked "(specification)".       *)
(***************************************************************************)
EXTENDS Integers, Sequences, FiniteSets, TLC

VARIABLES
    incoming_transfers,     \* [engine -> list of transfer_progress]
    outgoing_transfers,     \* [engine -> list of transfer_progress]
    interface_status,       \* [engine -> available_transmit_slots last seen]
    transmit_event,         \* [engine -> fragments emitted by the last call]
    transfer_receive_event, \* [engine -> transfers emitted by the last call]
    transfer_ack_event,     \* [engine -> metadata emitted by the last call]
    raised,                 \* [engine -> an exception left an entry point]
    now,                    \* clock::now()
    wire,                   \* fragments written to the link, not yet read
    written,                \* history: fragments written to the link, by type
    lost,                   \* history: fragments lost: <<FRAGMENTs, ACKs>>
    ticked,                 \* engines whose main_task ran at this clock value
    op,                     \* history: [engine -> the entry point called last]
    hist                    \* history: per engine, counters of past events

vars == <<incoming_transfers, outgoing_transfers, interface_status,
          transmit_event, transfer_receive_event, transfer_ack_event,
          raised, now, wire, written, lost, ticked, op, hist>>

-----------------------------------------------------------------------------
(* Bounds of the model *)

MaxLen == 3             \* longest payload handed to transmit()
MaxTransmits == 2       \* calls of transmit() in SpecTx
MaxReassemblies == 2    \* incoming records created in SpecRx
MaxRequests == 2        \* value of retransmitions up to which a REQ is fed
MaxTime == 3            \* last clock value of Spec, SpecRx and SpecTx
MaxTimeGrace == 11      \* last clock value of SpecGrace
MaxTimeLink == 8        \* last clock value of SpecLossy
MaxTimeAck == 3         \* last clock value of SpecLostAck
MaxLenLink == 5         \* longest payload sent over the link
MaxLoss == 2            \* FRAGMENTs, and ACKs, the link of SpecLossy loses
MaxIndex == 2           \* largest fragment index and total in a fed header
MaxDrain == 3           \* most writes after which the interface's queue is full
MaxSlots == 3           \* slots of the transfer reassembled in SpecReq
MaxTimeReq == 5         \* last clock value of SpecReq
MaxTimeProbe == 7       \* last clock value of SpecProbe
MaxTimeFeed == 1        \* last clock value at which SpecLive feeds a new slot
MaxTimeLive == 14       \* last clock value of SpecLive

Peers == {2, 3}         \* addresses of the peers of engine A
Ids == {0, 1}           \* transfer ids in use
InputPayloads == {<<>>, <<1>>, <<1, 2>>}   \* payloads of fed FRAGMENTs

-----------------------------------------------------------------------------
(* Configuration: the constructor's arguments *)

HeaderSize == 7
GraceMultiplier == 5

Config ==
    [ max_size              |-> 9,     \* constructor argument max_fragment_size
      retransmit_time       |-> 1,
      drop_time             |-> 2,
      retransmit_multiplier |-> 1 ]

max_fragment_size == Config.max_size - HeaderSize

-----------------------------------------------------------------------------
(* Helpers on sequences *)

Min(a, b) == IF a < b THEN a ELSE b

RECURSIVE Flatten(_)
Flatten(ss) == IF ss = <<>> THEN <<>> ELSE Head(ss) \o Flatten(Tail(ss))

erase(list, it) == SubSeq(list, 1, it - 1) \o SubSeq(list, it + 1, Len(list))

-----------------------------------------------------------------------------
(* headers::fragment_8b16b (specification, 6.3):                           *)
(* {type:u8, fragment:u8, fragments_total:u8, id:u16, prev_id:u16}         *)

FRAGMENT == 1
FRAGMENT_ACK == 2
FRAGMENT_REQ == 3

Header(type, fragment, fragments_total, id, prev_id) ==
    [ type            |-> type % 256,
      fragment        |-> fragment % 256,
      fragments_total |-> fragments_total % 256,
      id              |-> id % 65536,
      prev_id         |-> prev_id % 65536 ]

to_bytes(h) ==
    << h.type, h.fragment, h.fragments_total,
       h.id % 256, h.id \div 256, h.prev_id % 256, h.prev_id \div 256 >>

byte_copy(data) ==
    [ type            |-> data[1],
      fragment        |-> data[2],
      fragments_total |-> data[3],
      id              |-> data[4] + 256 * data[5],
      prev_id         |-> data[6] + 256 * data[7] ]

is_valid(h) ==
    /\ h.type \in {FRAGMENT, FRAGMENT_ACK, FRAGMENT_REQ}
    /\ h.fragments_total >= 1
    /\ 1 <= h.fragment
    /\ h.fragment <= h.fragments_total

-----------------------------------------------------------------------------
(* fragment: the peer's address and the bytes.  A received fragment has    *)
(* the peer as source(); a fragment made for transmission names the peer   *)
(* as destination(), the interface fills in the source when it writes.     *)

Unset == 0

fragment(address, data) ==
    [ source |-> Unset, destination |-> address, data |-> data ]

received(source, destination, data) ==
    [ source |-> source, destination |-> destination, data |-> data ]

shrink(data, front, back) == SubSeq(data, front + 1, Len(data) - back)

-----------------------------------------------------------------------------
(* clock (specification, 6.1) *)

older_than(ts, d) == now - ts > d

-----------------------------------------------------------------------------
(* transfer (specification, 3 and 4.2).  _data is the list of byte         *)
(* containers: the slots of a reassembly, or the containers the user       *)
(* pushed into a transfer to transmit.  fed is history, kept for a         *)
(* reassembly: the indices of the slots that _assign was called for.       *)

transfer_from_header(h) ==
    [ id |-> h.id, prev_id |-> h.prev_id,
      source |-> Unset, destination |-> Unset,
      data |-> [i \in 1..h.fragments_total |-> <<>>],
      timestamp_modified |-> now, fed |-> {} ]

user_transfer(id, destination, payload) ==
    [ id |-> id, prev_id |-> 0,
      source |-> Unset, destination |-> destination,
      data |-> IF payload = <<>> THEN <<>> ELSE <<payload>>,
      timestamp_modified |-> now ]

data_size(tr) == Len(Flatten(tr.data))

match(tr, p) == tr.source = p.source

match_as_response(tr, p) == tr.destination = p.source

get_metadata(tr) ==
    [ id |-> tr.id, prev_id |-> tr.prev_id,
      source |-> tr.source, destination |-> tr.destination ]

_assign(tr, fragment_pos, p) ==
    IF fragment_pos < 1 \/ fragment_pos > Len(tr.data)
    THEN tr
    ELSE [ tr EXCEPT
             !.data[fragment_pos] = p.data,
             !.source = p.source,
             !.destination = p.destination,
             !.timestamp_modified =
                 IF tr.data[fragment_pos] = <<>> THEN now ELSE @,
             !.fed = @ \cup {fragment_pos} ]


-----------------------------------------------------------------------------
(* transfer_wrapper *)

_is_complete(tr) == \A i \in 1..Len(tr.data) : tr.data[i] # <<>>

_fragments_count(tr) ==
    IF _is_complete(tr)
    THEN (data_size(tr) \div max_fragment_size
            + (IF data_size(tr) % max_fragment_size = 0 THEN 0 ELSE 1)) % 256
    ELSE Len(tr.data) % 256

(* variant: the index of the missing slot is returned zero-based *)
_missing_fragment_zero_based(tr) ==
    IF \E i \in 1..Len(tr.data) : tr.data[i] = <<>>
    THEN (CHOOSE i \in 1..Len(tr.data) :
            /\ tr.data[i] = <<>>
            /\ \A j \in 1..(i - 1) : tr.data[j] # <<>>) - 1
    ELSE 0

_missing_fragment(tr) ==
    IF \E i \in 1..Len(tr.data) : tr.data[i] = <<>>
    THEN (CHOOSE i \in 1..Len(tr.data) :
            /\ tr.data[i] = <<>>
            /\ \A j \in 1..(i - 1) : tr.data[j] # <<>>) % 256
    ELSE 0

(* variant: fragment_pos is not made zero-based *)
_get_fragment_one_based(tr, fragment_pos) ==
    LET pos    == fragment_pos
        p_size == max_fragment_size
        all    == Flatten(tr.data)
    IN  IF fragment_pos = 0 \/ pos * p_size > data_size(tr)
        THEN [thrown |-> TRUE, value |-> fragment(tr.destination, <<>>)]
        ELSE [thrown |-> FALSE,
              value  |-> fragment(tr.destination,
                           SubSeq(all, pos * p_size + 1,
                                  Min(pos * p_size + p_size, Len(all))))]

(* variant: the copy loop does not stop at p_size bytes *)
_get_fragment_unbounded(tr, fragment_pos) ==
    IF fragment_pos = 0
    THEN [thrown |-> TRUE, value |-> fragment(tr.destination, <<>>)]
    ELSE LET pos    == fragment_pos - 1
             p_size == max_fragment_size
             all    == Flatten(tr.data)
         IN  IF pos * p_size > data_size(tr)
             THEN [thrown |-> TRUE, value |-> fragment(tr.destination, <<>>)]
             ELSE [thrown |-> FALSE,
                   value  |-> fragment(tr.destination,
                                SubSeq(all, pos * p_size + 1, Len(all)))]

(* The result is [thrown, value]: thrown stands for std::invalid_argument. *)
_get_fragment(tr, fragment_pos) ==
    IF fragment_pos = 0
    THEN [thrown |-> TRUE, value |-> fragment(tr.destination, <<>>)]
    ELSE LET pos    == fragment_pos - 1
             p_size == max_fragment_size
             all    == Flatten(tr.data)
         IN  IF pos * p_size > data_size(tr)
             THEN [thrown |-> TRUE, value |-> fragment(tr.destination, <<>>)]
             ELSE [thrown |-> FALSE,
                   value  |-> fragment(tr.destination,
                                SubSeq(all, pos * p_size + 1,
                                       Min(pos * p_size + p_size, Len(all))))]

-----------------------------------------------------------------------------
(* transfer_progress.  tr is <<>> (the pointer owns nothing) or <<t>>.     *)
(* uid, emitted and peer are history, the code has none of them: uid is    *)
(* the number of the record among those its table ever held, emitted       *)
(* counts the FRAGMENTs emitted for an outgoing record, peer is the source *)
(* of the fragment that created an incoming record.                        *)

NoTransfer == <<>>

transfer_progress(t, uid) ==
    [ tr |-> <<t>>, timestamp_accessed |-> now, retransmitions |-> 0,
      id |-> t.id, uid |-> uid, emitted |-> 0, peer |-> t.source ]

transmit_done(tp) == [tp EXCEPT !.timestamp_accessed = now]

retransmit_done(tp) ==
    [tp EXCEPT !.timestamp_accessed = now, !.retransmitions = @ + 1]

-----------------------------------------------------------------------------
(* The handler.  st is the state of one handler:                           *)
(*   incoming, outgoing : _incoming_transfers, _outgoing_transfers         *)
(*   status             : _interface_status.available_transmit_slots       *)
(*   tx, rx, ack        : what transmit_event, transfer_receive_event and  *)
(*                        transfer_ack_event emitted during the call       *)
(*   raised             : an exception left the call                       *)
(*   drain              : the interface's queue: k >= 1 when the k-th      *)
(*                        write of this call fills it, 0 when no write of  *)
(*                        this call does                                   *)
(*   hist               : history counters, indexed by uid                 *)

(* variant: the status is not consulted *)
can_transmit_ignored(st) == TRUE

can_transmit(st) == st.status # 0

make_header(type, fragment_pos, tp) ==
    Header(type, fragment_pos, _fragments_count(tp.tr[1]),
           tp.tr[1].id, tp.tr[1].prev_id)

serialize_fragment(type, fragment_pos, tp) ==
    LET p == _get_fragment(tp.tr[1], fragment_pos)
        h == to_bytes(make_header(type, fragment_pos, tp))
    IN  [ thrown |-> p.thrown,
          value  |-> [p.value EXCEPT !.data = h \o @] ]

interface_status_callback(st, status) == [st EXCEPT !.status = status]

(* the subscriber of transmit_event (specification): the interface queues *)
(* the fragment, and when that fills its queue it reports the status from  *)
(* within the call                                                         *)
write_noexcept(st) ==
    IF st.drain = 1
    THEN [interface_status_callback(st, 0) EXCEPT !.drain = 0]
    ELSE IF st.drain > 1
         THEN [st EXCEPT !.drain = @ - 1]
         ELSE st

emit_transmit(st, f) == write_noexcept([st EXCEPT !.tx = Append(@, f)])

(* transmit_event.emit of a FRAGMENT of the outgoing record at it *)
emit_fragment(st, it, f) ==
    write_noexcept([st EXCEPT !.tx = Append(@, f),
                              !.outgoing[it].emitted = @ + 1])

(* transfer_receive_event.emit.  preceded is history: the id and source of *)
(* the transfer handed over, and what transmit_event emitted last before   *)
(* this event in the same call, <<>> for nothing                           *)
emit_receive(st, tp) ==
    [st EXCEPT !.rx = Append(@, tp.tr[1]),
               !.hist.delivered[tp.uid] = Append(@, now),
               !.hist.preceded[tp.uid] =
                   Append(@, [ id     |-> tp.tr[1].id,
                               source |-> tp.tr[1].source,
                               before |-> IF st.tx = <<>> THEN <<>>
                                          ELSE st.tx[Len(st.tx)] ])]

emit_ack(st, tp) ==
    [st EXCEPT !.ack = Append(@, get_metadata(tp.tr[1])),
               !.hist.acked[tp.uid] = @ + 1]

throw(st) == [st EXCEPT !.raised = TRUE]

-----------------------------------------------------------------------------
(* handle_fragment *)

(* variant: only the records in grace are looked up *)
find_incoming_grace_only(st, h, p) ==
    LET hit(t) == t.tr = NoTransfer /\ t.id = h.id
        S == { i \in 1..Len(st.incoming) : hit(st.incoming[i]) }
    IN  IF S = {} THEN 0 ELSE CHOOSE i \in S : \A j \in S : i <= j

(* std::find_if over _incoming_transfers: the first match, 0 for end() *)
find_incoming(st, h, p) ==
    LET hit(t) == IF t.tr # NoTransfer
                  THEN t.tr[1].id = h.id /\ match(t.tr[1], p)
                  ELSE t.id = h.id
        S == { i \in 1..Len(st.incoming) : hit(st.incoming[i]) }
    IN  IF S = {} THEN 0 ELSE CHOOSE i \in S : \A j \in S : i <= j

(* std::find_if over _outgoing_transfers *)
find_outgoing(st, h, p) ==
    LET hit(t) == t.tr[1].id = h.id /\ match_as_response(t.tr[1], p)
        S == { i \in 1..Len(st.outgoing) : hit(st.outgoing[i]) }
    IN  IF S = {} THEN 0 ELSE CHOOSE i \in S : \A j \in S : i <= j

(* the id is unknown: a new incoming transfer, and the fragment assigned *)
create_incoming(st, h, p) ==
    LET uid == Len(st.hist.delivered) + 1
        t   == _assign(transfer_from_header(h), h.fragment, p)
    IN  [st EXCEPT !.incoming = Append(@, transfer_progress(t, uid)),
                   !.hist.delivered = Append(@, <<>>),
                   !.hist.preceded = Append(@, <<>>),
                   !.hist.requested = Append(@, <<>>)]

(* variant: the fragment goes into the first empty slot *)
assign_incoming_in_order(st, it, h, p) ==
    [st EXCEPT !.incoming[it].tr[1] =
        _assign(@, _missing_fragment(st.incoming[it].tr[1]), p)]

(* the id is known and the transfer is being received *)
assign_incoming(st, it, h, p) ==
    [st EXCEPT !.incoming[it].tr[1] = _assign(@, h.fragment, p)]

(* variant: the ACK names the last fragment, as the ACK of a delivery does *)
reack_incoming_last(st, h, p) ==
    IF can_transmit(st)
    THEN emit_transmit(st,
            fragment(p.source,
                to_bytes(Header(FRAGMENT_ACK, h.fragments_total,
                                h.fragments_total, h.id, h.prev_id))))
    ELSE st

(* the transfer was received already: reply with another ACK *)
reack_incoming(st, h, p) ==
    IF can_transmit(st)
    THEN emit_transmit(st,
            fragment(p.source,
                to_bytes(Header(FRAGMENT_ACK, h.fragment, h.fragments_total,
                                h.id, h.prev_id))))
    ELSE st

(* fulfil the retransmit request *)
reply_request(st, it, h) ==
    LET tp == st.outgoing[it]
        f  == serialize_fragment(FRAGMENT, h.fragment, tp)
    IN  IF f.thrown
        THEN throw(st)
        ELSE [emit_fragment(st, it, f.value) EXCEPT
                !.outgoing[it] = retransmit_done(@)]

(* variant: the oldest outgoing transfer is destroyed *)
ack_outgoing_front(st, it) ==
    [emit_ack(st, st.outgoing[it]) EXCEPT !.outgoing = erase(@, 1)]

(* variant: the acknowledged transfer is kept *)
ack_outgoing_kept(st, it) == emit_ack(st, st.outgoing[it])

(* the ACK event for the sender, and the outgoing transfer destroyed *)
ack_outgoing(st, it) ==
    [emit_ack(st, st.outgoing[it]) EXCEPT !.outgoing = erase(@, it)]

handle_fragment(st, h, p) ==
    IF h.type = FRAGMENT
    THEN LET it == find_incoming(st, h, p)
         IN  IF it = 0
             THEN create_incoming(st, h, p)
             ELSE IF st.incoming[it].tr # NoTransfer
                  THEN assign_incoming(st, it, h, p)
                  ELSE reack_incoming(st, h, p)
    ELSE LET it == find_outgoing(st, h, p)
         IN  IF it # 0
             THEN IF h.type = FRAGMENT_REQ /\ can_transmit(st)
                  THEN reply_request(st, it, h)
                  ELSE IF h.type = FRAGMENT_ACK
                       THEN ack_outgoing(st, it)
                       ELSE st
             ELSE st

(* variant: the header is not validated *)
receive_callback_unvalidated(st, p) ==
    IF Len(p.data) >= HeaderSize
    THEN handle_fragment(st, byte_copy(p.data),
            [p EXCEPT !.data = shrink(@, HeaderSize, 0)])
    ELSE st

receive_callback(st, p) ==
    IF Len(p.data) >= HeaderSize
    THEN LET h == byte_copy(p.data)
         IN  IF is_valid(h)
             THEN handle_fragment(st, h,
                    [p EXCEPT !.data = shrink(@, HeaderSize, 0)])
             ELSE st
    ELSE st

-----------------------------------------------------------------------------
(* main_task.  An iterator is an index into the list; Len + 1 is end().    *)

(* variant: the receive event comes before the ACK *)
deliver_incoming_event_first(st, it) ==
    LET tp == st.incoming[it]
        f  == fragment(tp.tr[1].source,
                to_bytes(make_header(FRAGMENT_ACK,
                                     _fragments_count(tp.tr[1]), tp)))
    IN  [emit_transmit(emit_receive(st, tp), f) EXCEPT
            !.incoming[it].tr = NoTransfer]

(* variant: the pointer is not reset after the receive event *)
deliver_incoming_owned(st, it) ==
    LET tp == st.incoming[it]
        f  == fragment(tp.tr[1].source,
                to_bytes(make_header(FRAGMENT_ACK,
                                     _fragments_count(tp.tr[1]), tp)))
    IN  emit_receive(emit_transmit(st, f), tp)

(* the transfer is complete: the ACK, the receive event, the pointer reset *)
deliver_incoming(st, it) ==
    LET tp == st.incoming[it]
        f  == fragment(tp.tr[1].source,
                to_bytes(make_header(FRAGMENT_ACK,
                                     _fragments_count(tp.tr[1]), tp)))
    IN  [emit_receive(emit_transmit(st, f), tp) EXCEPT
            !.incoming[it].tr = NoTransfer]

(* variant: the request names the number of slots, not the missing one *)
request_missing_last(st, it) ==
    LET tp    == st.incoming[it]
        index == _fragments_count(tp.tr[1])
        f     == fragment(tp.tr[1].source,
                    to_bytes(make_header(FRAGMENT_REQ, index, tp)))
    IN  [emit_transmit(st, f) EXCEPT
            !.incoming[it] = retransmit_done(tp),
            !.hist.requested[tp.uid] = Append(@, now)]

(* request a retransmit of the missing fragment; requested is history:     *)
(* the times of the requests made for the record                           *)
request_missing(st, it) ==
    LET tp    == st.incoming[it]
        index == _missing_fragment(tp.tr[1])
        f     == fragment(tp.tr[1].source,
                    to_bytes(make_header(FRAGMENT_REQ, index, tp)))
    IN  [emit_transmit(st, f) EXCEPT
            !.incoming[it] = retransmit_done(tp),
            !.hist.requested[tp.uid] = Append(@, now)]

(* variant: the fragment that follows the retransmissions made so far *)
probe_outgoing_next(st, it) ==
    LET tp == st.outgoing[it]
        f  == serialize_fragment(FRAGMENT, tp.retransmitions + 1, tp)
    IN  IF f.thrown
        THEN throw(st)
        ELSE [emit_fragment(st, it, f.value) EXCEPT
                !.outgoing[it] = retransmit_done(@),
                !.hist.probed[tp.uid] = @ + 1]

(* retransmit the first fragment; probed is history: the number of these   *)
(* retransmissions made for the record                                     *)
probe_outgoing(st, it) ==
    LET tp == st.outgoing[it]
        f  == serialize_fragment(FRAGMENT, 1, tp)
    IN  IF f.thrown
        THEN throw(st)
        ELSE [emit_fragment(st, it, f.value) EXCEPT
                !.outgoing[it] = retransmit_done(@),
                !.hist.probed[tp.uid] = @ + 1]

(* if (it != end()) ++it *)
next_incoming(st, it) == IF it <= Len(st.incoming) THEN it + 1 ELSE it

(* the first loop's body at it; the iterator moves in next_incoming *)
incoming_step(st, it) ==
    LET tp == st.incoming[it]
    IN  IF tp.tr = NoTransfer
        THEN IF older_than(tp.timestamp_accessed,
                           Config.drop_time * GraceMultiplier)
             THEN [st EXCEPT !.incoming = erase(@, it)]
             ELSE st
        ELSE IF _is_complete(tp.tr[1]) /\ can_transmit(st)
        THEN deliver_incoming(st, it)
        ELSE IF older_than(tp.tr[1].timestamp_modified, Config.drop_time)
        THEN [st EXCEPT !.incoming = erase(@, it)]
        ELSE IF /\ can_transmit(st)
                /\ older_than(tp.tr[1].timestamp_modified,
                              Config.retransmit_time)
                /\ older_than(tp.timestamp_accessed, Config.retransmit_time)
        THEN request_missing(st, it)
        ELSE st

RECURSIVE incoming_loop(_, _)
incoming_loop(st, it) ==
    IF it > Len(st.incoming) \/ st.raised
    THEN st
    ELSE LET s == incoming_step(st, it)
         IN  incoming_loop(s, next_incoming(s, it))

(* variant: the iterator is advanced after an erase as well *)
outgoing_step_advancing(st, it) ==
    LET tp == st.outgoing[it]
    IN  IF older_than(tp.timestamp_accessed, Config.drop_time)
        THEN <<[st EXCEPT !.outgoing = erase(@, it)], it + 1>>
        ELSE IF /\ can_transmit(st)
                /\ tp.retransmitions <
                     _fragments_count(tp.tr[1]) * Config.retransmit_multiplier
                /\ older_than(tp.timestamp_accessed, Config.retransmit_time)
        THEN <<probe_outgoing(st, it), it>>
        ELSE <<st, it + 1>>

(* one pass of the second loop's body at it: <<the state, the iterator>> *)
outgoing_step(st, it) ==
    LET tp == st.outgoing[it]
    IN  IF older_than(tp.timestamp_accessed, Config.drop_time)
        THEN <<[st EXCEPT !.outgoing = erase(@, it)], it>>
        ELSE IF /\ can_transmit(st)
                /\ tp.retransmitions <
                     _fragments_count(tp.tr[1]) * Config.retransmit_multiplier
                /\ older_than(tp.timestamp_accessed, Config.retransmit_time)
        THEN <<probe_outgoing(st, it), it>>
        ELSE <<st, it + 1>>

RECURSIVE outgoing_loop(_, _)
outgoing_loop(st, it) ==
    IF it > Len(st.outgoing) \/ st.raised
    THEN st
    ELSE LET r == outgoing_step(st, it)
         IN  outgoing_loop(r[1], r[2])

(* variant: the incoming transfers are not looked at *)
main_task_outgoing_only(st) == outgoing_loop(st, 1)

main_task(st) == outgoing_loop(incoming_loop(st, 1), 1)

-----------------------------------------------------------------------------
(* transmit *)

RECURSIVE transmit_loop(_, _, _)
transmit_loop(st, it, fragment_pos) ==
    IF fragment_pos > _fragments_count(st.outgoing[it].tr[1]) \/ st.raised
    THEN st
    ELSE IF can_transmit(st)
         THEN LET tp == st.outgoing[it]
                  f  == serialize_fragment(FRAGMENT, fragment_pos, tp)
              IN  IF f.thrown
                  THEN throw(st)
                  ELSE transmit_loop(emit_fragment(st, it, f.value),
                                     it, fragment_pos + 1)
         ELSE st

(* variant: every fragment is emitted, whatever the status *)
transmit_all(st, t) ==
    LET uid == Len(st.hist.acked) + 1
        s0  == [st EXCEPT
                  !.outgoing = Append(@, transfer_progress(t, uid)),
                  !.hist.acked = Append(@, 0),
                  !.hist.probed = Append(@, 0),
                  !.status = 1, !.drain = 0]
        it  == Len(s0.outgoing)
        s1  == transmit_loop(s0, it, 1)
    IN  [s1 EXCEPT !.outgoing[it] = transmit_done(@), !.status = st.status]

transmit(st, t) ==
    LET uid == Len(st.hist.acked) + 1
        s0  == [st EXCEPT
                  !.outgoing = Append(@, transfer_progress(t, uid)),
                  !.hist.acked = Append(@, 0),
                  !.hist.probed = Append(@, 0)]
        it  == Len(s0.outgoing)
        s1  == transmit_loop(s0, it, 1)
    IN  IF s1.raised
        THEN s1
        ELSE [s1 EXCEPT !.outgoing[it] = transmit_done(@)]

-----------------------------------------------------------------------------
(* The engines and their environment.  Engine A (address 1) is the handler *)
(* under study; engine B (address 2) is a second handler at the other end  *)
(* of a link.  Address 3 is a further peer of A.                           *)

A == 1
B == 2
Engines == {A, B}

State(e) ==
    [ incoming |-> incoming_transfers[e],
      outgoing |-> outgoing_transfers[e],
      status   |-> interface_status[e],
      tx       |-> <<>>,
      rx       |-> <<>>,
      ack      |-> <<>>,
      raised   |-> raised[e],
      drain    |-> 0,
      hist     |-> hist[e] ]

(* the state of a call during which the k-th write fills the queue *)
StateDraining(e, k) == [State(e) EXCEPT !.drain = k]

(* interface::write of every fragment the call emitted; a fragment for a   *)
(* peer that is not an engine leaves the model                             *)
Written(e, tx) ==
    LET all == [ i \in 1..Len(tx) |->
                  [ from |-> e, to |-> tx[i].destination, data |-> tx[i].data ] ]
        engine(m) == m.to \in Engines
    IN  SelectSeq(all, engine)

RECURSIVE Count(_, _)
Count(w, tx) ==
    IF tx = <<>> THEN w
    ELSE Count([w EXCEPT ![Head(tx).data[1]] = @ + 1], Tail(tx))

(* the call of engine e ends in state s; linked: its fragments go on wire *)
Commit(e, s, linked, rest) ==
    /\ incoming_transfers' = [incoming_transfers EXCEPT ![e] = s.incoming]
    /\ outgoing_transfers' = [outgoing_transfers EXCEPT ![e] = s.outgoing]
    /\ interface_status' = [interface_status EXCEPT ![e] = s.status]
    /\ transmit_event' = [transmit_event EXCEPT ![e] = s.tx]
    /\ transfer_receive_event' = [transfer_receive_event EXCEPT ![e] = s.rx]
    /\ transfer_ack_event' = [transfer_ack_event EXCEPT ![e] = s.ack]
    /\ raised' = [raised EXCEPT ![e] = s.raised]
    /\ hist' = [hist EXCEPT ![e] = s.hist]
    /\ wire' = IF linked THEN rest \o Written(e, s.tx) ELSE wire
    /\ written' = IF linked THEN Count(written, Written(e, s.tx)) ELSE written

Headers(types, ids) ==
    { Header(type, f, n, id, 0) :
        type \in types, f \in 0..MaxIndex, n \in 1..MaxIndex, id \in ids }

(* a fragment as the interface hands it to receive_callback of engine A *)
Raw(src, h, d) == received(src, A, to_bytes(h) \o d)

(* FRAGMENTs with valid headers *)
FragmentInputs(peers, ids, payloads) ==
    { Raw(src, h, d) :
        src \in peers, h \in { x \in Headers({FRAGMENT}, ids) : is_valid(x) },
        d \in payloads }

(* FRAGMENT_REQs and FRAGMENT_ACKs with valid headers *)
ResponseInputs(peers, ids) ==
    { Raw(src, h, <<>>) :
        src \in peers,
        h \in { x \in Headers({FRAGMENT_REQ, FRAGMENT_ACK}, ids) : is_valid(x) } }

(* fragments receive_callback discards: too short, or an invalid header *)
DiscardedInputs ==
    { received(src, A, <<FRAGMENT, 1>>) : src \in Peers }
    \cup
    { Raw(src, Header(type, f, 1, 0, 0), <<>>) :
        src \in Peers, type \in {0, FRAGMENT, FRAGMENT_REQ}, f \in {0, 2} }

UserPayload(k) == [i \in 1..k |-> i]

(* the host numbers its transfers: ids differ between live transfers *)
next_id(e) == Len(hist[e].acked) % Cardinality(Ids)

UserTransfers(ids, peers) ==
    { user_transfer(id, dst, UserPayload(k)) :
        id \in ids, dst \in peers, k \in 0..MaxLen }

Init ==
    /\ incoming_transfers = [e \in Engines |-> <<>>]
    /\ outgoing_transfers = [e \in Engines |-> <<>>]
    /\ interface_status = [e \in Engines |-> 1]
    /\ transmit_event = [e \in Engines |-> <<>>]
    /\ transfer_receive_event = [e \in Engines |-> <<>>]
    /\ transfer_ack_event = [e \in Engines |-> <<>>]
    /\ raised = [e \in Engines |-> FALSE]
    /\ now = 0
    /\ wire = <<>>
    /\ written = <<0, 0, 0>>
    /\ lost = <<0, 0>>
    /\ ticked = {}
    /\ op = [e \in Engines |-> "construct"]
    /\ hist = [e \in Engines |->
                [acked |-> <<>>, delivered |-> <<>>, preceded |-> <<>>,
                 requested |-> <<>>, probed |-> <<>>]]

(* the caps that keep the counters of a run finite *)
Bounded(s, records) ==
    /\ Len(s.hist.delivered) <= records
    /\ \A i \in 1..Len(s.outgoing) : s.outgoing[i].retransmitions <= MaxRequests

(* the host calls transmit(t) *)
Transmit(e, t, records, linked) ==
    /\ ~raised[e]
    /\ Len(hist[e].acked) < records
    /\ Commit(e, transmit(State(e), t), linked, wire)
    /\ op' = [op EXCEPT ![e] = "transmit"]
    /\ UNCHANGED <<now, lost, ticked>>

(* the host calls transmit(t); the interface's queue has room for k *)
TransmitDraining(e, t, records, k) ==
    /\ ~raised[e]
    /\ Len(hist[e].acked) < records
    /\ Commit(e, transmit(StateDraining(e, k), t), FALSE, wire)
    /\ op' = [op EXCEPT ![e] = "transmit"]
    /\ UNCHANGED <<now, lost, ticked>>

(* the interface calls receive_callback(p) *)
Receive(e, p, records) ==
    /\ ~raised[e]
    /\ Bounded(receive_callback(State(e), p), records)
    /\ Commit(e, receive_callback(State(e), p), FALSE, wire)
    /\ op' = [op EXCEPT ![e] = "receive_callback"]
    /\ UNCHANGED <<now, lost, ticked>>

(* the host calls main_task() *)
MainTask(e) ==
    /\ ~raised[e]
    /\ Commit(e, main_task(State(e)), FALSE, wire)
    /\ op' = [op EXCEPT ![e] = "main_task"]
    /\ UNCHANGED <<now, lost, ticked>>

(* the interface reports its status *)
StatusCallback(e, status) ==
    /\ ~raised[e]
    /\ status # interface_status[e]
    /\ Commit(e, interface_status_callback(State(e), status), FALSE, wire)
    /\ op' = [op EXCEPT ![e] = "interface_status_callback"]
    /\ UNCHANGED <<now, lost, ticked>>

(* the clock moves on *)
AdvanceTime(last) ==
    /\ now < last
    /\ now' = now + 1
    /\ UNCHANGED <<incoming_transfers, outgoing_transfers, interface_status,
                   transmit_event, transfer_receive_event, transfer_ack_event,
                   raised, wire, written, lost, ticked, op, hist>>

-----------------------------------------------------------------------------
(* Spec: engine A, one record in each table, every kind of input.          *)

Next ==
    \/ \E t \in UserTransfers({next_id(A)}, {B}) : Transmit(A, t, 1, FALSE)
    \/ \E p \in FragmentInputs({B}, {0}, {<<1, 2>>}) : Receive(A, p, 1)
    \/ \E p \in ResponseInputs({B}, {0}) : Receive(A, p, 1)
    \/ \E p \in DiscardedInputs : Receive(A, p, 1)
    \/ MainTask(A)
    \/ \E status \in {0, 1} : StatusCallback(A, status)
    \/ AdvanceTime(MaxTime)

Spec == Init /\ [][Next]_vars

(* SpecNoise: as Spec, with FRAGMENT_REQs and FRAGMENT_ACKs of every peer  *)
(* and every id, most of which match no outgoing record.                   *)

NextNoise ==
    \/ \E t \in UserTransfers({next_id(A)}, {B}) : Transmit(A, t, 1, FALSE)
    \/ \E p \in FragmentInputs({B}, {0}, {<<1, 2>>}) : Receive(A, p, 1)
    \/ \E p \in ResponseInputs(Peers, Ids) : Receive(A, p, 1)
    \/ \E p \in DiscardedInputs : Receive(A, p, 1)
    \/ MainTask(A)
    \/ \E status \in {0, 1} : StatusCallback(A, status)
    \/ AdvanceTime(MaxTime)

SpecNoise == Init /\ [][NextNoise]_vars

(* SpecRx: engine A receives.  Peers send FRAGMENTs of transfers with one  *)
(* id; the host never transmits, so the outgoing table stays empty.        *)

NextRx ==
    \/ \E p \in FragmentInputs(Peers, {0}, InputPayloads \ {<<>>}) :
            Receive(A, p, MaxReassemblies)
    \/ MainTask(A)
    \/ \E status \in {0, 1} : StatusCallback(A, status)
    \/ AdvanceTime(MaxTime)

SpecRx == Init /\ [][NextRx]_vars

(* SpecTx: engine A sends.  The host transmits to B, the peers answer with *)
(* FRAGMENT_REQs and FRAGMENT_ACKs; no FRAGMENT arrives, so the incoming   *)
(* table stays empty.                                                      *)

NextTx ==
    \/ \E t \in UserTransfers({next_id(A)}, {B}) :
            Transmit(A, t, MaxTransmits, FALSE)
    \/ \E p \in ResponseInputs({B}, Ids) : Receive(A, p, 0)
    \/ MainTask(A)
    \/ \E status \in {0, 1} : StatusCallback(A, status)
    \/ AdvanceTime(MaxTime)

SpecTx == Init /\ [][NextTx]_vars

(* SpecTick: engine A with several records in both tables and a free      *)
(* transmit slot; the peers send FRAGMENTs and never answer.               *)

NextTick ==
    \/ Transmit(A, user_transfer(next_id(A), B, UserPayload(1)),
                MaxTransmits, FALSE)
    \/ \E p \in FragmentInputs(Peers, {0}, {<<1>>}) :
            Receive(A, p, MaxReassemblies)
    \/ MainTask(A)
    \/ AdvanceTime(MaxTime)

SpecTick == Init /\ [][NextTick]_vars

(* SpecDrain: engine A transmits transfers of up to three fragments to an  *)
(* interface whose queue may fill during the call.                         *)

DrainTransfers ==
    { user_transfer(next_id(A), B, UserPayload(n)) : n \in 0..MaxLenLink }

NextDrain ==
    \/ \E t \in DrainTransfers, k \in 0..MaxDrain :
            TransmitDraining(A, t, MaxTransmits, k)
    \/ MainTask(A)
    \/ \E status \in {0, 1} : StatusCallback(A, status)
    \/ AdvanceTime(MaxTime)

SpecDrain == Init /\ [][NextDrain]_vars

(* SpecReq: engine A reassembles one transfer of three slots from peer B,  *)
(* long enough for two retransmit requests.                                *)

SlotInputs(n) ==
    { Raw(B, Header(FRAGMENT, f, n, 0, 0), <<f>>) : f \in 1..n }

NextReq ==
    \/ \E p \in SlotInputs(MaxSlots) : Receive(A, p, 1)
    \/ MainTask(A)
    \/ \E status \in {0, 1} : StatusCallback(A, status)
    \/ AdvanceTime(MaxTimeReq)

SpecReq == Init /\ [][NextReq]_vars

(* SpecProbe: engine A transmits to a peer that never answers.            *)

NextProbe ==
    \/ \E t \in UserTransfers({next_id(A)}, {B}) :
            Transmit(A, t, MaxTransmits, FALSE)
    \/ MainTask(A)
    \/ \E status \in {0, 1} : StatusCallback(A, status)
    \/ AdvanceTime(MaxTimeProbe)

SpecProbe == Init /\ [][NextProbe]_vars

(* SpecLive: engine A receives from two peers.  New records and new slots  *)
(* come up to MaxTimeFeed, duplicates at any time; the clock runs until    *)
(* the grace of a record last touched at MaxTimeFeed + drop_time is over.  *)
(* FairLive: main_task keeps being called and the clock keeps moving.      *)
(* The condition on main_task is WF_vars(MainTask(A)) written out, with    *)
(* the states in which a call of main_task would change nothing given as   *)
(* a state predicate.                                                      *)

ReceiveLive(p) ==
    /\ Receive(A, p, MaxReassemblies)
    /\ now <= MaxTimeFeed \/ incoming_transfers'[A] = incoming_transfers[A]

NextLive ==
    \/ \E p \in FragmentInputs(Peers, {0}, {<<1>>}) : ReceiveLive(p)
    \/ MainTask(A)
    \/ \E status \in {0, 1} : StatusCallback(A, status)
    \/ AdvanceTime(MaxTimeLive)

SpecLive == Init /\ [][NextLive]_vars

MainTaskDisabled ==
    \/ raised[A]
    \/ /\ op[A] = "main_task"
       /\ LET s == main_task(State(A))
          IN  /\ s.incoming = incoming_transfers[A]
              /\ s.outgoing = outgoing_transfers[A]
              /\ s.status = interface_status[A]
              /\ s.tx = transmit_event[A]
              /\ s.rx = transfer_receive_event[A]
              /\ s.ack = transfer_ack_event[A]
              /\ s.raised = raised[A]
              /\ s.hist = hist[A]

FairLive ==
    /\ SpecLive
    /\ WF_vars(AdvanceTime(MaxTimeLive))
    /\ []<>MainTaskDisabled \/ []<><<MainTask(A)>>_vars

(* SpecGrace: engine A receives from one peer, over a long time.          *)

NextGrace ==
    \/ \E p \in FragmentInputs({B}, {0}, {<<1>>}) : Receive(A, p, 1)
    \/ MainTask(A)
    \/ \E status \in {0, 1} : StatusCallback(A, status)
    \/ AdvanceTime(MaxTimeGrace)

SpecGrace == Init /\ [][NextGrace]_vars

-----------------------------------------------------------------------------
(* Two engines and a link.  A transmits one transfer to B; what an engine  *)
(* emits is written to the link, and the link hands it to the other        *)
(* engine's receive_callback, in any order.                                *)

LinkTransfers(ids) ==
    { user_transfer(id, B, UserPayload(k)) : id \in ids, k \in 1..MaxLenLink }

Deliver(i) ==
    LET m == wire[i]
        p == received(m.from, m.to, m.data)
    IN  /\ m.to \in Engines
        /\ ~raised[m.to]
        /\ Commit(m.to, receive_callback(State(m.to), p), TRUE, erase(wire, i))
        /\ op' = [op EXCEPT ![m.to] = "receive_callback"]
        /\ UNCHANGED <<now, lost, ticked>>

(* main_task of an engine on a link; regular: once per clock value *)
LinkMainTask(e, regular) ==
    /\ ~raised[e]
    /\ regular => e \notin ticked
    /\ Commit(e, main_task(State(e)), TRUE, wire)
    /\ op' = [op EXCEPT ![e] = "main_task"]
    /\ ticked' = IF regular THEN ticked \cup {e} ELSE ticked
    /\ UNCHANGED <<now, lost>>

(* the link loses a FRAGMENT of the first burst *)
LoseFragment(i) ==
    /\ wire[i].data[1] = FRAGMENT
    /\ outgoing_transfers[A] # <<>>
    /\ outgoing_transfers[A][1].retransmitions = 0
    /\ lost[1] < MaxLoss
    /\ wire' = erase(wire, i)
    /\ lost' = <<lost[1] + 1, lost[2]>>
    /\ UNCHANGED <<incoming_transfers, outgoing_transfers, interface_status,
                   transmit_event, transfer_receive_event, transfer_ack_event,
                   raised, now, written, ticked, op, hist>>

(* the link loses a FRAGMENT_ACK *)
LoseAck(i) ==
    /\ wire[i].data[1] = FRAGMENT_ACK
    /\ lost[2] < MaxLoss
    /\ wire' = erase(wire, i)
    /\ lost' = <<lost[1], lost[2] + 1>>
    /\ UNCHANGED <<incoming_transfers, outgoing_transfers, interface_status,
                   transmit_event, transfer_receive_event, transfer_ack_event,
                   raised, now, written, ticked, op, hist>>

(* the clock moves on once the link is empty and both engines have ticked *)
LinkAdvanceTime(last) ==
    /\ wire = <<>>
    /\ ticked = Engines
    /\ now < last
    /\ now' = now + 1
    /\ ticked' = {}
    /\ UNCHANGED <<incoming_transfers, outgoing_transfers, interface_status,
                   transmit_event, transfer_receive_event, transfer_ack_event,
                   raised, wire, written, lost, op, hist>>

(* SpecLink: a lossless link, free transmit slots, no timer expires.       *)

NextLink ==
    \/ \E t \in LinkTransfers(Ids) : Transmit(A, t, 1, TRUE)
    \/ \E i \in 1..Len(wire) : Deliver(i)
    \/ \E e \in Engines : LinkMainTask(e, FALSE)

SpecLink == Init /\ [][NextLink]_vars

(* SpecLossy: the link loses FRAGMENTs of the first burst and ACKs; both   *)
(* engines run main_task once per clock value; transmit slots are free;    *)
(* the transfer is handed to transmit() at clock value 0.                  *)

NextLossy ==
    \/ \E t \in LinkTransfers(Ids) : now = 0 /\ Transmit(A, t, 1, TRUE)
    \/ \E i \in 1..Len(wire) : Deliver(i)
    \/ \E i \in 1..Len(wire) : LoseFragment(i)
    \/ \E i \in 1..Len(wire) : LoseAck(i)
    \/ \E e \in Engines : LinkMainTask(e, TRUE)
    \/ LinkAdvanceTime(MaxTimeLink)

SpecLossy == Init /\ [][NextLossy]_vars

FairLossy == SpecLossy /\ WF_vars(NextLossy)

(* SpecLostAck: the link loses ACKs; the peer's interface runs out of      *)
(* transmit slots and recovers; a further peer (address 3) sends B         *)
(* FRAGMENTs with the ids A uses.                                          *)

StrangerFragments ==
    { [ from |-> 3, to |-> B, data |-> to_bytes(h) \o <<9>> ] :
        h \in { x \in Headers({FRAGMENT}, {0}) : is_valid(x) } }

(* a fragment of the further peer enters the link, one at a time *)
Intrude(m) ==
    /\ Len(hist[B].delivered) < MaxReassemblies
    /\ \A j \in 1..Len(wire) : wire[j].from \in Engines
    /\ wire' = Append(wire, m)
    /\ UNCHANGED <<incoming_transfers, outgoing_transfers, interface_status,
                   transmit_event, transfer_receive_event, transfer_ack_event,
                   raised, now, written, lost, ticked, op, hist>>

NextLostAck ==
    \/ \E t \in LinkTransfers({0}) : now = 0 /\ Transmit(A, t, 1, TRUE)
    \/ \E i \in 1..Len(wire) : Deliver(i)
    \/ \E i \in 1..Len(wire) : LoseAck(i)
    \/ \E m \in StrangerFragments : Intrude(m)
    \/ \E status \in {0, 1} : StatusCallback(B, status)
    \/ \E e \in Engines : LinkMainTask(e, TRUE)
    \/ LinkAdvanceTime(MaxTimeAck)

SpecLostAck == Init /\ [][NextLostAck]_vars

-----------------------------------------------------------------------------
(* Properties *)

(* C1 (SpecTx): transfer_ack_event fires at most once for each outgoing    *)
(* record created by transmit(), whatever FRAGMENT_REQs and FRAGMENT_ACKs  *)
(* arrive, duplicated or reordered, and whenever main_task runs.           *)
C1_AckOnce ==
    \A u \in 1..Len(hist[A].acked) : hist[A].acked[u] <= 1

(* C1, reached: both records of a run were acknowledged, the second by the *)
(* call that just returned.                                                *)
C1_BothAcked ==
    /\ hist[A].acked = <<1, 1>>
    /\ op[A] = "receive_callback"
    /\ Len(transfer_ack_event[A]) = 1

(* C2 (SpecRx): transfer_receive_event fires at most once per incoming     *)
(* record, from its creation to its erasure; FRAGMENTs that arrive for a   *)
(* record in grace do not deliver it again.                                *)
C2_ReceiveOnce ==
    \A u \in 1..Len(hist[A].delivered) : Len(hist[A].delivered[u]) <= 1

(* C2, reached: a FRAGMENT arrived for a delivered record in grace and was *)
(* answered with an ACK by the call that just returned.                    *)
C2_DuplicateInGrace ==
    /\ op[A] = "receive_callback"
    /\ Len(transmit_event[A]) = 1
    /\ \E i \in 1..Len(incoming_transfers[A]) :
          /\ incoming_transfers[A][i].tr = NoTransfer
          /\ Len(hist[A].delivered[incoming_transfers[A][i].uid]) = 1

(* C3 (Spec): a call made while the last observed status has no transmit   *)
(* slot emits no transmit_event: transmit_event[A] holds what the last     *)
(* call emitted, and interface_status_callback emits nothing.              *)
C3_Backpressure ==
    interface_status[A] = 0 => transmit_event[A] = <<>>

(* C3, reached: transmit() of a transfer with fragments returned without   *)
(* emitting, the interface having no slot.                                 *)
C3_TransmitDeferred ==
    /\ interface_status[A] = 0
    /\ op[A] = "transmit"
    /\ outgoing_transfers[A] # <<>>
    /\ _fragments_count(outgoing_transfers[A][1].tr[1]) = 2
    /\ transmit_event[A] = <<>>

(* C4 (SpecTx): the FRAGMENTs emitted for an outgoing transfer of N        *)
(* fragments, by transmit(), by the probes of main_task and by the replies *)
(* to FRAGMENT_REQ, never number more than N + N * retransmit_multiplier.  *)
(* Stated for the transfers with a payload, N >= 1.                        *)
C4_BudgetCap ==
    \A i \in 1..Len(outgoing_transfers[A]) :
        LET tp == outgoing_transfers[A][i]
            N  == _fragments_count(tp.tr[1])
        IN  N >= 1 => tp.emitted <= N + N * Config.retransmit_multiplier

(* C6 (SpecTx): no call of receive_callback ends with an exception, for    *)
(* any fragment received; a FRAGMENT_REQ with a valid header that names an *)
(* index beyond the record's fragments is discarded or answered.  Stated   *)
(* for a handler whose outgoing transfers all have a payload.              *)
C6_NeverRaises ==
    (/\ op[A] = "receive_callback"
     /\ \A i \in 1..Len(outgoing_transfers[A]) :
            data_size(outgoing_transfers[A][i].tr[1]) >= 1)
    => ~raised[A]

(* C5 (SpecLink): on a lossless link with free transmit slots,            *)
(*  - transmit() of a payload emits FRAGMENTs 1..N, N the number of        *)
(*    max_fragment_size slices, each with its slice in order;              *)
(*  - the peer's main_task never leaves a complete transfer undelivered,   *)
(*    and delivers it once, with the payload of the sender's transfer and  *)
(*    one FRAGMENT_ACK (compared while the sender still holds it, that is  *)
(*    until the ACK arrives);                                              *)
(*  - the ACK fires transfer_ack_event once at the sender and empties its  *)
(*    outgoing table; when the link is empty and the peer's record is in   *)
(*    grace, all of that has happened.                                     *)
C5_Slice(payload, i) ==
    SubSeq(payload, (i - 1) * max_fragment_size + 1,
           Min(i * max_fragment_size, Len(payload)))

C5_Slices(payload) ==
    (Len(payload) + max_fragment_size - 1) \div max_fragment_size

C5_RoundTrip ==
    /\ (op[A] = "transmit") =>
          LET t       == outgoing_transfers[A][1].tr[1]
              payload == Flatten(t.data)
              N       == C5_Slices(payload)
          IN  transmit_event[A] =
                [ i \in 1..N |->
                    fragment(B, to_bytes(Header(FRAGMENT, i, N, t.id, 0))
                                \o C5_Slice(payload, i)) ]
    /\ (op[B] = "main_task") =>
          \A i \in 1..Len(incoming_transfers[B]) :
              \/ incoming_transfers[B][i].tr = NoTransfer
              \/ ~_is_complete(incoming_transfers[B][i].tr[1])
    /\ Len(hist[B].delivered) <= 1
    /\ \A u \in 1..Len(hist[B].delivered) : Len(hist[B].delivered[u]) <= 1
    /\ written[FRAGMENT_ACK] <= 1
    /\ (transfer_receive_event[B] # <<>> /\ hist[A].acked = <<0>>) =>
          /\ Len(transfer_receive_event[B]) = 1
          /\ outgoing_transfers[A] # <<>>
          /\ Flatten(transfer_receive_event[B][1].data)
                = Flatten(outgoing_transfers[A][1].tr[1].data)
          /\ written[FRAGMENT_ACK] = 1
    /\ (op[A] = "receive_callback") =>
          /\ Len(transfer_ack_event[A]) = 1
          /\ outgoing_transfers[A] = <<>>
    /\ (/\ hist[A].acked # <<>>
        /\ wire = <<>>
        /\ incoming_transfers[B] # <<>>
        /\ incoming_transfers[B][1].tr = NoTransfer) =>
          /\ hist[A].acked = <<1>>
          /\ outgoing_transfers[A] = <<>>
          /\ hist[B].delivered = << <<0>> >>
          /\ written[FRAGMENT_ACK] = 1
          /\ written[FRAGMENT_REQ] = 0

(* C5, reached: a payload of three fragments went round: delivered at the  *)
(* peer, acknowledged at the sender by the call that just returned.        *)
C5_ThreeFragmentsDone ==
    /\ written = <<3, 1, 0>>
    /\ wire = <<>>
    /\ hist[A].acked = <<1>>
    /\ hist[B].delivered = << <<0>> >>
    /\ op[A] = "receive_callback"
    /\ Len(transfer_ack_event[A]) = 1
    /\ outgoing_transfers[A] = <<>>

(* C7 (SpecRx): a complete incoming transfer that main_task cannot deliver *)
(* because the interface has no transmit slot stays in the incoming table: *)
(* no step taken under backpressure removes its record.                    *)
C7_DeferredKept ==
    [][ \A i \in 1..Len(incoming_transfers[A]) :
          (/\ interface_status[A] = 0
           /\ incoming_transfers[A][i].tr # NoTransfer
           /\ _is_complete(incoming_transfers[A][i].tr[1]))
          => \E j \in 1..Len(incoming_transfers'[A]) :
                incoming_transfers'[A][j].uid = incoming_transfers[A][i].uid
      ]_vars

(* C8 (SpecGrace): a record whose transfer main_task delivered stays in    *)
(* the incoming table while less than 5 * drop_time have passed since the  *)
(* delivery, however long the reassembly took.                             *)
C8_GraceFromDelivery ==
    \A u \in 1..Len(hist[A].delivered) :
        (/\ hist[A].delivered[u] # <<>>
         /\ now - hist[A].delivered[u][1] < GraceMultiplier * Config.drop_time)
        => \E i \in 1..Len(incoming_transfers[A]) :
              incoming_transfers[A][i].uid = u

(* C9 (SpecLostAck): a FRAGMENT for which the lookup of handle_fragment     *)
(* finds a record in grace (live records match by id and source, records   *)
(* in grace by id) changes no record, creates none, and fires no           *)
(* transfer_receive_event; with a free transmit slot it is answered by     *)
(* exactly one FRAGMENT_ACK to the fragment's source, with the header's    *)
(* id, fragment index and total.  An ACK that reaches the sender while it  *)
(* holds the transfer fires transfer_ack_event once and removes the        *)
(* record, and no transfer is ever acknowledged twice.                     *)
C9_InGrace(m) ==
    /\ m.to = B
    /\ Len(m.data) >= HeaderSize
    /\ is_valid(byte_copy(m.data))
    /\ byte_copy(m.data).type = FRAGMENT
    /\ LET it == find_incoming(State(B), byte_copy(m.data),
                               received(m.from, m.to, <<>>))
       IN  it # 0 /\ incoming_transfers[B][it].tr = NoTransfer

C9_Answers(m) ==
    /\ m.to = A
    /\ Len(m.data) >= HeaderSize
    /\ is_valid(byte_copy(m.data))
    /\ byte_copy(m.data).type = FRAGMENT_ACK
    /\ outgoing_transfers[A] # <<>>
    /\ outgoing_transfers[A][1].tr[1].id = byte_copy(m.data).id

C9_LostAckRecovery ==
    [][ /\ \A u \in 1..Len(hist'[A].acked) : hist'[A].acked[u] <= 1
        /\ \A i \in 1..Len(wire) :
            /\ (Deliver(i) /\ C9_InGrace(wire[i])) =>
                  LET h == byte_copy(wire[i].data)
                  IN  /\ incoming_transfers'[B] = incoming_transfers[B]
                      /\ hist'[B] = hist[B]
                      /\ transfer_receive_event'[B] = <<>>
                      /\ interface_status[B] # 0 =>
                            transmit_event'[B] =
                              << fragment(wire[i].from,
                                   to_bytes(Header(FRAGMENT_ACK, h.fragment,
                                       h.fragments_total, h.id, h.prev_id))) >>
            /\ (Deliver(i) /\ C9_Answers(wire[i])) =>
                  /\ Len(transfer_ack_event'[A]) = 1
                  /\ hist'[A].acked = <<1>>
                  /\ outgoing_transfers'[A] = <<>>
      ]_vars

(* C9, reached: the ACK of the delivery was lost, the sender probed with   *)
(* FRAGMENT 1 of a transfer of two or more, the peer's record in grace     *)
(* answered with a second ACK, and that ACK has just fired the sender's    *)
(* transfer_ack_event.                                                     *)
C9_RecoveredByProbe ==
    /\ op[A] = "receive_callback"
    /\ Len(transfer_ack_event[A]) = 1
    /\ hist[A].acked = <<1>>
    /\ lost[2] = 1
    /\ written[FRAGMENT_ACK] = 2
    /\ written[FRAGMENT] >= 3
    /\ Len(hist[B].delivered) = 1
    /\ Len(hist[B].delivered[1]) = 1
    /\ Len(incoming_transfers[B]) = 1
    /\ incoming_transfers[B][1].tr = NoTransfer

(* C10 (SpecLossy): retransmit_time < drop_time, free transmit slots, both *)
(* engines run main_task at every clock value, the link loses FRAGMENTs of *)
(* the first burst only.                                                   *)
(*  - main_task of the receiver, on a transfer of which it holds some but  *)
(*    not all fragments and that made no progress for more than            *)
(*    retransmit_time, emits one FRAGMENT_REQ to the sender for the first  *)
(*    missing index;                                                       *)
(*  - the FRAGMENT_REQ finds the sender's record, and the sender answers   *)
(*    with the FRAGMENT of that index;                                     *)
(*  - by the last clock value the receiver has acknowledged and delivered  *)
(*    the transfer, once.                                                  *)
C10_Partial(tp) ==
    /\ tp.tr # NoTransfer
    /\ \E k \in 1..Len(tp.tr[1].data) : tp.tr[1].data[k] = <<>>
    /\ \E k \in 1..Len(tp.tr[1].data) : tp.tr[1].data[k] # <<>>

C10_FirstMissing(tr) ==
    CHOOSE k \in 1..Len(tr.data) :
        tr.data[k] = <<>> /\ \A j \in 1..(k - 1) : tr.data[j] # <<>>

C10_IsRequest(m) ==
    /\ m.to = A
    /\ Len(m.data) >= HeaderSize
    /\ byte_copy(m.data).type = FRAGMENT_REQ

C10_SelectiveRepeat ==
    [][ /\ (/\ LinkMainTask(B, TRUE)
            /\ incoming_transfers[B] # <<>>
            /\ C10_Partial(incoming_transfers[B][1])
            /\ now - incoming_transfers[B][1].tr[1].timestamp_modified
                  > Config.retransmit_time) =>
              LET t == incoming_transfers[B][1].tr[1]
              IN  transmit_event'[B] =
                    << fragment(A, to_bytes(Header(FRAGMENT_REQ,
                          C10_FirstMissing(t), Len(t.data), t.id, 0))) >>
        /\ \A i \in 1..Len(wire) :
            (Deliver(i) /\ C10_IsRequest(wire[i])) =>
              LET h == byte_copy(wire[i].data)
              IN  /\ outgoing_transfers[A] # <<>>
                  /\ LET t       == outgoing_transfers[A][1].tr[1]
                         payload == Flatten(t.data)
                     IN  transmit_event'[A] =
                           << fragment(B,
                                to_bytes(Header(FRAGMENT, h.fragment,
                                    C5_Slices(payload), t.id, 0))
                                \o C5_Slice(payload, h.fragment)) >>
        /\ (/\ now' = MaxTimeLink
            /\ wire' = <<>>
            /\ ticked' = Engines
            /\ hist'[A].acked # <<>>) =>
              /\ Len(hist'[B].delivered) = 1
              /\ Len(hist'[B].delivered[1]) = 1
              /\ written'[FRAGMENT_ACK] >= 1
      ]_vars

(* C10, reached: two of three FRAGMENTs were lost, the receiver asked for  *)
(* each, and its main_task has just delivered the transfer.                *)
C10_TwoRepeated ==
    /\ lost[1] = 2
    /\ written[FRAGMENT_REQ] = 2
    /\ op[B] = "main_task"
    /\ Len(transfer_receive_event[B]) = 1
    /\ Len(Flatten(transfer_receive_event[B][1].data)) = 5
    /\ hist[B].delivered = << <<now>> >>

(* C11 (SpecNoise): a received fragment shorter than the header or with an *)
(* invalid header, and a FRAGMENT_REQ or FRAGMENT_ACK for which no         *)
(* outgoing record has the id and the sender as destination, changes no    *)
(* table, counter or timestamp and fires no event: in every reachable     *)
(* state receive_callback returns the handler as it found it, with the     *)
(* three event lists of the call empty.                                    *)
C11_Discardable(p) ==
    IF Len(p.data) < HeaderSize
    THEN TRUE
    ELSE LET h == byte_copy(p.data)
         IN  \/ ~is_valid(h)
             \/ /\ h.type \in {FRAGMENT_REQ, FRAGMENT_ACK}
                /\ \A i \in 1..Len(outgoing_transfers[A]) :
                      \/ outgoing_transfers[A][i].tr[1].id # h.id
                      \/ outgoing_transfers[A][i].tr[1].destination # p.source

C11_NoEffect ==
    \A p \in DiscardedInputs \cup ResponseInputs(Peers, Ids) :
        C11_Discardable(p) => receive_callback(State(A), p) = State(A)

(* C11, reached: receive_callback returned without an event although a     *)
(* transmit slot is free and an outgoing record waits untouched; no        *)
(* FRAGMENT was received, the incoming table never held a record.          *)
C11_Dropped ==
    /\ op[A] = "receive_callback"
    /\ interface_status[A] # 0
    /\ Len(outgoing_transfers[A]) = 1
    /\ outgoing_transfers[A][1].retransmitions = 0
    /\ _fragments_count(outgoing_transfers[A][1].tr[1]) = 2
    /\ hist[A].delivered = <<>>
    /\ transmit_event[A] = <<>>
    /\ transfer_ack_event[A] = <<>>

(* C12 (SpecTx): every fragment emitted through transmit_event carries at  *)
(* most max_fragment_size payload bytes after its header, so at most the   *)
(* configured link size in all, for every payload length and every         *)
(* requested index.                                                        *)
C12_MtuBound ==
    \A k \in 1..Len(transmit_event[A]) :
        /\ Len(transmit_event[A][k].data) >= HeaderSize
        /\ Len(transmit_event[A][k].data) - HeaderSize <= max_fragment_size
        /\ Len(transmit_event[A][k].data) <= Config.max_size

(* C12, reached: FRAGMENT 1 of a payload longer than max_fragment_size,    *)
(* requested again by the peer, went out with exactly max_fragment_size    *)
(* bytes.                                                                  *)
C12_FullFragment ==
    /\ op[A] = "receive_callback"
    /\ Len(transmit_event[A]) = 1
    /\ byte_copy(transmit_event[A][1].data).fragment = 1
    /\ Len(transmit_event[A][1].data) = Config.max_size
    /\ \E i \in 1..Len(outgoing_transfers[A]) :
          data_size(outgoing_transfers[A][i].tr[1]) > max_fragment_size

(* C13 (SpecTx): every transfer stored in the incoming or the outgoing     *)
(* table has a fragments count of at least 1, also one that transmit()     *)
(* stored for an empty payload.                                            *)
C13_CountPositive ==
    /\ \A i \in 1..Len(outgoing_transfers[A]) :
          _fragments_count(outgoing_transfers[A][i].tr[1]) >= 1
    /\ \A i \in 1..Len(incoming_transfers[A]) :
          incoming_transfers[A][i].tr # NoTransfer =>
              _fragments_count(incoming_transfers[A][i].tr[1]) >= 1

(* C14 (SpecRx): the incoming table never holds two live records with the  *)
(* same peer and id, and a FRAGMENT adds a record only in a state where no *)
(* record matches it (a live one by id and peer, one in grace by id).      *)
C14_Matches(tp, p) ==
    IF tp.tr = NoTransfer
    THEN tp.id = byte_copy(p.data).id
    ELSE tp.tr[1].id = byte_copy(p.data).id /\ tp.tr[1].source = p.source

C14_OneLivePerPeerId ==
    /\ \A i, j \in 1..Len(incoming_transfers[A]) :
          (/\ i < j
           /\ incoming_transfers[A][i].tr # NoTransfer
           /\ incoming_transfers[A][j].tr # NoTransfer) =>
              \/ incoming_transfers[A][i].tr[1].id
                    # incoming_transfers[A][j].tr[1].id
              \/ incoming_transfers[A][i].tr[1].source
                    # incoming_transfers[A][j].tr[1].source
    /\ \A p \in FragmentInputs(Peers, {0}, InputPayloads \ {<<>>}) :
          Len(receive_callback(State(A), p).incoming)
                > Len(incoming_transfers[A]) =>
              \A i \in 1..Len(incoming_transfers[A]) :
                  ~C14_Matches(incoming_transfers[A][i], p)

(* C14, reached: two live records with one id, from two peers, the second  *)
(* created by the call that just returned.                                 *)
C14_SameIdTwoPeers ==
    /\ op[A] = "receive_callback"
    /\ Len(incoming_transfers[A]) = 2
    /\ incoming_transfers[A][1].tr # NoTransfer
    /\ incoming_transfers[A][2].tr # NoTransfer
    /\ incoming_transfers[A][1].tr[1].id = incoming_transfers[A][2].tr[1].id
    /\ incoming_transfers[A][1].tr[1].source
          # incoming_transfers[A][2].tr[1].source

(* C15 (SpecRx): incoming records are keyed by peer and id.  A FRAGMENT    *)
(* whose id is the cached id of a record in grace that another peer        *)
(* completed, and for which the table holds no record of its own peer, is  *)
(* no duplicate: no FRAGMENT_ACK is sent for it and it starts a new record *)
(* for its peer.                                                           *)
C15_ForeignGrace(p) ==
    LET h == byte_copy(p.data)
    IN  /\ \E i \in 1..Len(incoming_transfers[A]) :
              /\ incoming_transfers[A][i].tr = NoTransfer
              /\ incoming_transfers[A][i].id = h.id
              /\ incoming_transfers[A][i].peer # p.source
        /\ \A i \in 1..Len(incoming_transfers[A]) :
              ~(/\ incoming_transfers[A][i].id = h.id
                /\ incoming_transfers[A][i].peer = p.source)

C15_KeyedByPeer ==
    [][ \A p \in FragmentInputs(Peers, {0}, InputPayloads \ {<<>>}) :
          (C15_ForeignGrace(p) /\ Receive(A, p, MaxReassemblies)) =>
              /\ transmit_event'[A] = <<>>
              /\ Len(incoming_transfers'[A]) = Len(incoming_transfers[A]) + 1
              /\ LET tp == incoming_transfers'[A][Len(incoming_transfers'[A])]
                 IN  /\ tp.tr # NoTransfer
                     /\ tp.peer = p.source
                     /\ tp.id = byte_copy(p.data).id
      ]_vars

(* C16 (SpecTick): what main_task does with a record, it does when the     *)
(* record is due: an incoming record for the erasure after grace, the      *)
(* delivery, the drop or a retransmit request, an outgoing record for the  *)
(* drop or the probe.  A record that is still due when main_task returns   *)
(* was not examined in that pass.                                          *)
C16_DueIncoming(tp) ==
    IF tp.tr = NoTransfer
    THEN older_than(tp.timestamp_accessed, Config.drop_time * GraceMultiplier)
    ELSE \/ _is_complete(tp.tr[1]) /\ interface_status[A] # 0
         \/ older_than(tp.tr[1].timestamp_modified, Config.drop_time)
         \/ /\ interface_status[A] # 0
            /\ older_than(tp.tr[1].timestamp_modified, Config.retransmit_time)
            /\ older_than(tp.timestamp_accessed, Config.retransmit_time)

C16_DueOutgoing(tp) ==
    \/ older_than(tp.timestamp_accessed, Config.drop_time)
    \/ /\ interface_status[A] # 0
       /\ tp.retransmitions <
             _fragments_count(tp.tr[1]) * Config.retransmit_multiplier
       /\ older_than(tp.timestamp_accessed, Config.retransmit_time)

C17_IsType(f, type) ==
    Len(f.data) >= HeaderSize /\ byte_copy(f.data).type = type

C17_Count(tx, type) ==
    Cardinality({ k \in 1..Len(tx) : C17_IsType(tx[k], type) })

C17_AckThenReceive ==
    /\ transfer_receive_event[A] # <<>> =>
          /\ op[A] = "main_task"
          /\ C17_Count(transmit_event[A], FRAGMENT_ACK)
                = Len(transfer_receive_event[A])
    /\ \A u \in 1..Len(hist[A].preceded) :
          /\ Len(hist[A].preceded[u]) = Len(hist[A].delivered[u])
          /\ \A k \in 1..Len(hist[A].preceded[u]) :
                LET e == hist[A].preceded[u][k]
                IN  /\ e.before # <<>>
                    /\ C17_IsType(e.before, FRAGMENT_ACK)
                    /\ byte_copy(e.before.data).id = e.id
                    /\ e.before.destination = e.source
    /\ \A p \in FragmentInputs(Peers, {0}, InputPayloads \ {<<>>}) :
          LET s == receive_callback(State(A), p)
          IN  /\ s.rx = <<>>
              /\ C17_Count(s.tx, FRAGMENT_REQ) = 0
              /\ Len(s.incoming) >= Len(incoming_transfers[A])
              /\ \A i \in 1..Len(incoming_transfers[A]) :
                    s.incoming[i].uid = incoming_transfers[A][i].uid

(* C17, reached: main_task delivered a two-fragment transfer that an       *)
(* earlier receive_callback had completed: one ACK to the source, then the *)
(* event.                                                                  *)
C17_DeliveredByTick ==
    /\ op[A] = "main_task"
    /\ Len(transfer_receive_event[A]) = 1
    /\ Len(transfer_receive_event[A][1].data) = 2
    /\ Len(transmit_event[A]) = 1
    /\ C17_IsType(transmit_event[A][1], FRAGMENT_ACK)
    /\ transmit_event[A][1].destination = transfer_receive_event[A][1].source
    /\ \E u \in 1..Len(hist[A].preceded) :
          /\ Len(hist[A].preceded[u]) = 1
          /\ hist[A].preceded[u][1].before = transmit_event[A][1]

(* C18 (SpecTx): a FRAGMENT_ACK whose id and source are the id and the     *)
(* destination of an outgoing record makes receive_callback emit           *)
(* transfer_ack_event once, with the metadata of that record's transfer,   *)
(* and leave the outgoing table without that record and otherwise as it    *)
(* was, with and without a free transmit slot.                             *)
C18_Acks(p, tp) ==
    /\ byte_copy(p.data).type = FRAGMENT_ACK
    /\ tp.tr[1].id = byte_copy(p.data).id
    /\ tp.tr[1].destination = p.source

C18_AckErases ==
    \A p \in ResponseInputs(Peers, Ids) :
        \A it \in 1..Len(outgoing_transfers[A]) :
            (/\ ~raised[A]
             /\ C18_Acks(p, outgoing_transfers[A][it])
             /\ \A j \in 1..(it - 1) : ~C18_Acks(p, outgoing_transfers[A][j]))
            => LET s  == receive_callback(State(A), p)
                   tr == outgoing_transfers[A][it].tr[1]
               IN  /\ s.ack = << [ id |-> tr.id, prev_id |-> tr.prev_id,
                                   source |-> tr.source,
                                   destination |-> tr.destination ] >>
                   /\ Len(s.outgoing) = Len(outgoing_transfers[A]) - 1
                   /\ \A j \in 1..Len(s.outgoing) :
                         s.outgoing[j] =
                           outgoing_transfers[A][IF j < it THEN j ELSE j + 1]
                   /\ s.tx = <<>>

(* C18, reached: with no free transmit slot, the ACK of the second of two  *)
(* outgoing transfers arrived; the event fired and the first transfer is   *)
(* the only record left.                                                   *)
C18_SecondAckedNoSlot ==
    /\ op[A] = "receive_callback"
    /\ interface_status[A] = 0
    /\ Len(transfer_ack_event[A]) = 1
    /\ transfer_ack_event[A][1].id = 1
    /\ hist[A].acked = <<0, 1>>
    /\ Len(outgoing_transfers[A]) = 1
    /\ outgoing_transfers[A][1].uid = 1

(* C19 (SpecTx): a FRAGMENT_REQ whose id and source are the id and the     *)
(* destination of an outgoing record is answered, when a transmit slot is  *)
(* free, with exactly one FRAGMENT that carries the requested index and    *)
(* the id of the transfer, and the record's retransmitions grow by one and *)
(* its timestamp_accessed becomes now; with no free slot the call emits    *)
(* nothing and leaves the record as it was.                                *)
C19_Requests(p, tp) ==
    /\ byte_copy(p.data).type = FRAGMENT_REQ
    /\ tp.tr[1].id = byte_copy(p.data).id
    /\ tp.tr[1].destination = p.source

C19_RequestServed ==
    \A p \in ResponseInputs(Peers, Ids) :
        \A it \in 1..Len(outgoing_transfers[A]) :
            (/\ ~raised[A]
             /\ data_size(outgoing_transfers[A][it].tr[1]) >= 1
             /\ C19_Requests(p, outgoing_transfers[A][it])
             /\ \A j \in 1..(it - 1) :
                    ~C19_Requests(p, outgoing_transfers[A][j]))
            => LET s  == receive_callback(State(A), p)
                   tp == outgoing_transfers[A][it]
               IN  IF interface_status[A] # 0
                   THEN /\ ~s.raised
                        /\ Len(s.tx) = 1
                        /\ s.tx[1].destination = tp.tr[1].destination
                        /\ byte_copy(s.tx[1].data).type = FRAGMENT
                        /\ byte_copy(s.tx[1].data).fragment
                              = byte_copy(p.data).fragment
                        /\ byte_copy(s.tx[1].data).id = tp.tr[1].id
                        /\ Len(s.outgoing) = Len(outgoing_transfers[A])
                        /\ s.outgoing[it].retransmitions
                              = tp.retransmitions + 1
                        /\ s.outgoing[it].timestamp_accessed = now
                   ELSE /\ s.tx = <<>>
                        /\ s.outgoing = outgoing_transfers[A]

(* C20 (SpecDrain): transmit() appends the transfer to the outgoing table  *)
(* as a new record with timestamp_accessed = now, leaves the older records *)
(* as they were, and emits FRAGMENT 1, 2, ..., K in this order, where K is *)
(* 0 when no transmit slot is free at the call, the number N of fragments  *)
(* when the slots last, and k when the interface reports no free slot      *)
(* after the k-th fragment, k < N.                                         *)
C20_Prefix(t, K) ==
    LET payload == Flatten(t.data)
        N == (Len(payload) + max_fragment_size - 1) \div max_fragment_size
    IN  [ i \in 1..K |->
            fragment(t.destination,
                to_bytes(Header(FRAGMENT, i, N, t.id, t.prev_id))
                \o SubSeq(payload, (i - 1) * max_fragment_size + 1,
                          Min(i * max_fragment_size, Len(payload)))) ]

C20_TransmitPrefix ==
    \A t \in DrainTransfers, k \in 0..MaxDrain :
        LET s == transmit(StateDraining(A, k), t)
            n == Len(outgoing_transfers[A])
            payload == Flatten(t.data)
            N == (Len(payload) + max_fragment_size - 1) \div max_fragment_size
            K == IF interface_status[A] = 0 THEN 0
                 ELSE IF k = 0 THEN N ELSE Min(k, N)
        IN  /\ ~s.raised
            /\ Len(s.outgoing) = n + 1
            /\ SubSeq(s.outgoing, 1, n) = outgoing_transfers[A]
            /\ s.outgoing[n + 1].tr = <<t>>
            /\ s.outgoing[n + 1].timestamp_accessed = now
            /\ s.outgoing[n + 1].retransmitions = 0
            /\ s.tx = C20_Prefix(t, K)

(* C20, reached: transmit() of a three-fragment transfer returned after    *)
(* the interface reported no free slot behind the second fragment: the     *)
(* record is stored, FRAGMENT 1 and 2 are out, FRAGMENT 3 is not.          *)
C20_StoppedAtThird ==
    /\ op[A] = "transmit"
    /\ interface_status[A] = 0
    /\ Len(outgoing_transfers[A]) = 1
    /\ data_size(outgoing_transfers[A][1].tr[1]) = 5
    /\ outgoing_transfers[A][1].timestamp_accessed = now
    /\ Len(transmit_event[A]) = 2
    /\ byte_copy(transmit_event[A][1].data).fragment = 1
    /\ byte_copy(transmit_event[A][2].data).fragment = 2

(* C21 (SpecTx): _get_fragment of a transfer handed to transmit() raises   *)
(* for index 0 and for every index i with (i - 1) * max_fragment_size >=   *)
(* |payload|, the first index behind a payload that is a multiple of       *)
(* max_fragment_size included, and what it returns is never empty.         *)
C21_IndexChecked ==
    \A it \in 1..Len(outgoing_transfers[A]) :
        \A i \in 0..(MaxIndex + 1) :
            LET tr == outgoing_transfers[A][it].tr[1]
                r  == _get_fragment(tr, i)
            IN  data_size(tr) >= 1 =>
                  /\ (i = 0 \/ (i - 1) * max_fragment_size >= data_size(tr))
                        => r.thrown
                  /\ ~r.thrown => r.value.data # <<>>

(* C22 (SpecReq): every FRAGMENT_REQ main_task emits goes to the source of *)
(* an incoming record that owns an incomplete transfer, carries its id and *)
(* the index of its lowest empty slot, an index in 1..N, and is emitted    *)
(* with a free transmit slot and with timestamp_modified and               *)
(* timestamp_accessed of the record both older than retransmit_time; two   *)
(* requests for one record are more than retransmit_time apart.            *)
C22_LowestEmpty(tr, i) ==
    /\ i \in 1..Len(tr.data)
    /\ tr.data[i] = <<>>
    /\ \A j \in 1..(i - 1) : tr.data[j] # <<>>

C22_RequestedFrom(f, tp) ==
    /\ tp.tr # NoTransfer
    /\ \E i \in 1..Len(tp.tr[1].data) : tp.tr[1].data[i] = <<>>
    /\ f.destination = tp.tr[1].source
    /\ byte_copy(f.data).id = tp.tr[1].id
    /\ byte_copy(f.data).fragments_total = Len(tp.tr[1].data)
    /\ C22_LowestEmpty(tp.tr[1], byte_copy(f.data).fragment)
    /\ now - tp.tr[1].timestamp_modified > Config.retransmit_time
    /\ now - tp.timestamp_accessed > Config.retransmit_time

C22_RequestsDue ==
    /\ LET s == main_task(State(A))
       IN  \A k \in 1..Len(s.tx) :
             byte_copy(s.tx[k].data).type = FRAGMENT_REQ =>
               /\ interface_status[A] # 0
               /\ \E i \in 1..Len(incoming_transfers[A]) :
                     C22_RequestedFrom(s.tx[k], incoming_transfers[A][i])
    /\ \A u \in 1..Len(hist[A].requested) :
          \A k \in 2..Len(hist[A].requested[u]) :
             hist[A].requested[u][k] - hist[A].requested[u][k - 1]
               > Config.retransmit_time

(* C22, reached: main_task has just requested slot 3 of a record for which *)
(* it had requested slot 2 before.                                         *)
C22_SecondRequest ==
    /\ op[A] = "main_task"
    /\ Len(transmit_event[A]) = 1
    /\ byte_copy(transmit_event[A][1].data).type = FRAGMENT_REQ
    /\ byte_copy(transmit_event[A][1].data).fragment = 3
    /\ Len(hist[A].requested) = 1
    /\ Len(hist[A].requested[1]) = 2
    /\ hist[A].requested[1][2] = now

(* C23 (SpecRx): the FRAGMENT_ACK main_task emits when it delivers a       *)
(* reassembled transfer of N slots carries the id of the transfer, and     *)
(* fragment = fragments_total = N, whatever the lengths of the payloads in *)
(* the slots.                                                              *)
C23_IsAck(f) ==
    Len(f.data) >= HeaderSize /\ byte_copy(f.data).type = FRAGMENT_ACK

C23_AckNamesSlots ==
    (/\ op[A] = "main_task"
     /\ Len(transfer_receive_event[A]) = 1)
    => LET t    == transfer_receive_event[A][1]
           acks == SelectSeq(transmit_event[A], C23_IsAck)
       IN  /\ Len(acks) = 1
           /\ byte_copy(acks[1].data).id = t.id
           /\ byte_copy(acks[1].data).fragment = Len(t.data)
           /\ byte_copy(acks[1].data).fragments_total = Len(t.data)

(* C24 (SpecProbe): for the outgoing records of a peer that never answers, *)
(* one main_task erases the records whose timestamp_accessed is older than *)
(* drop_time and no others; of the rest it retransmits FRAGMENT 1, once,   *)
(* for each record with a free transmit slot, retransmissions left in the  *)
(* budget fragments_count * retransmit_multiplier and timestamp_accessed   *)
(* older than retransmit_time, and leaves the others as they were; it      *)
(* fires no transfer_ack_event, and no record is probed more often than    *)
(* its budget allows.                                                      *)
C24_Budget(tr) ==
    ((data_size(tr) + max_fragment_size - 1) \div max_fragment_size)
        * Config.retransmit_multiplier

C24_Dropped(tp) == now - tp.timestamp_accessed > Config.drop_time

C24_Probed(tp) ==
    /\ ~C24_Dropped(tp)
    /\ interface_status[A] # 0
    /\ tp.retransmitions < C24_Budget(tp.tr[1])
    /\ now - tp.timestamp_accessed > Config.retransmit_time

C24_ProbeOf(tp) ==
    fragment(tp.tr[1].destination,
        to_bytes(Header(FRAGMENT, 1, C24_Budget(tp.tr[1])
                                        \div Config.retransmit_multiplier,
                        tp.tr[1].id, tp.tr[1].prev_id))
        \o SubSeq(Flatten(tp.tr[1].data), 1,
                  Min(max_fragment_size, data_size(tp.tr[1]))))

C24_ProbesThenDrop ==
    LET s    == main_task(State(A))
        old  == outgoing_transfers[A]
        kept == SelectSeq(old, LAMBDA tp : ~C24_Dropped(tp))
        due  == SelectSeq(old, C24_Probed)
    IN  /\ ~s.raised
        /\ s.ack = <<>>
        /\ Len(s.outgoing) = Len(kept)
        /\ \A i \in 1..Len(kept) :
              s.outgoing[i] =
                IF C24_Probed(kept[i])
                THEN [kept[i] EXCEPT !.retransmitions = @ + 1,
                                     !.emitted = @ + 1,
                                     !.timestamp_accessed = now]
                ELSE kept[i]
        /\ s.tx = [ i \in 1..Len(due) |-> C24_ProbeOf(due[i]) ]
        /\ \A i \in 1..Len(old) :
              /\ old[i].retransmitions <= C24_Budget(old[i].tr[1])
              /\ hist[A].probed[old[i].uid] = old[i].retransmitions
        /\ \A u \in 1..Len(hist[A].acked) : hist[A].acked[u] = 0

(* C24, reached: main_task has just erased a two-fragment transfer that    *)
(* was probed twice, its whole budget, and never acknowledged.             *)
C24_ErasedAfterBudget ==
    /\ op[A] = "main_task"
    /\ outgoing_transfers[A] = <<>>
    /\ transmit_event[A] = <<>>
    /\ transfer_ack_event[A] = <<>>
    /\ hist[A].probed = <<2>>
    /\ hist[A].acked = <<0>>
    /\ now = MaxTimeProbe

(* C25 (SpecRx): main_task erases the incoming record it examines first if *)
(* the record owns an incomplete transfer whose timestamp_modified is      *)
(* older than drop_time, and emits no FRAGMENT_ACK and no receive event    *)
(* for it; a FRAGMENT for a slot that is assigned already leaves           *)
(* timestamp_modified as it was; after the erasure a FRAGMENT of the same  *)
(* peer with the same id finds no record.                                  *)
C25_TimedOut(tp) ==
    /\ tp.tr # NoTransfer
    /\ \E i \in 1..Len(tp.tr[1].data) : tp.tr[1].data[i] = <<>>
    /\ now - tp.tr[1].timestamp_modified > Config.drop_time

C25_Repeats(p, tp) ==
    /\ tp.tr # NoTransfer
    /\ p.source = tp.tr[1].source
    /\ byte_copy(p.data).id = tp.tr[1].id
    /\ byte_copy(p.data).fragment \in 1..Len(tp.tr[1].data)
    /\ tp.tr[1].data[byte_copy(p.data).fragment] # <<>>

C25_Erased ==
    (incoming_transfers[A] # <<>> /\ C25_TimedOut(incoming_transfers[A][1]))
    => LET s  == main_task(State(A))
           tp == incoming_transfers[A][1]
       IN  /\ \A j \in 1..Len(s.incoming) : s.incoming[j].uid # tp.uid
           /\ s.hist.delivered[tp.uid] = <<>>
           /\ \A k \in 1..Len(s.tx) :
                 ~(/\ byte_copy(s.tx[k].data).type = FRAGMENT_ACK
                   /\ byte_copy(s.tx[k].data).id = tp.id
                   /\ s.tx[k].destination = tp.tr[1].source)

C25_NotPostponed ==
    \A p \in FragmentInputs(Peers, {0}, InputPayloads \ {<<>>}) :
        \A i \in 1..Len(incoming_transfers[A]) :
            C25_Repeats(p, incoming_transfers[A][i]) =>
               receive_callback(State(A), p).incoming[i].tr[1].timestamp_modified
                 = incoming_transfers[A][i].tr[1].timestamp_modified

C25_Forgotten ==
    (incoming_transfers[A] # <<>> /\ C25_TimedOut(incoming_transfers[A][1]))
    => LET s  == main_task(State(A))
           tp == incoming_transfers[A][1]
       IN  \A p \in FragmentInputs({tp.tr[1].source}, {tp.id},
                                   InputPayloads \ {<<>>}) :
              find_incoming(s, byte_copy(p.data), p) = 0

C25_InboundTimeout == C25_Erased /\ C25_NotPostponed /\ C25_Forgotten

(* C26 (SpecReq): the slots of a reassembly are determined by the set S of *)
(* the indices fed to it, in whatever order and however often: slot i      *)
(* holds the payload of FRAGMENT i if i is in S and is empty if not;       *)
(* _is_complete holds iff S = 1..N; _missing_fragment is the least index   *)
(* not in S, and 0 if S = 1..N.                                            *)
C26_Slots(N, S) == [ i \in 1..N |-> IF i \in S THEN <<i>> ELSE <<>> ]

C26_LeastMissing(N, S) ==
    IF S = 1..N THEN 0
    ELSE CHOOSE i \in (1..N) \ S : \A j \in (1..N) \ S : i <= j

C27_InTable(u) ==
    \E i \in 1..Len(incoming_transfers[A]) : incoming_transfers[A][i].uid = u

=============================================================================
